---- MODULE Spec2Model ----
(***************************************************************************)
(* Model of layer_edge.py: main() reads the proxy file and spawns one      *)
(* worker() task per proxy; every worker loops between activation          *)
(* (attempt_start_node) and farming (do_farm_once).                        *)
(* A worker step runs from one await to the next, as asyncio schedules it. *)
(* Spec is the program left alone; SpecApi is the program on one-line       *)
(* files with the response of each request recorded; SpecLive is the        *)
(* program under fair scheduling; SpecCancel adds the user's Ctrl-C, once   *)
(* or several times, between two steps or inside one;                       *)
(* SpecFault adds an output that may fail, which is what makes a worker or  *)
(* main raise.                                                              *)
(***************************************************************************)
EXTENDS Integers, Sequences, FiniteSets, TLC

\* ------------------------------------------------------------------ bounds
MaxRun     == 3   \* sleeps a worker is woken from within one phase

\* --------------------------------------------------------------- constants
POLL_INTERVAL  == 5
TIMEOUT_SECS   == 15
HTTP_OK        == 200

START_ENDPOINT  == "/api/node-points/start"
UPDATE_ENDPOINT == "/api/node-points"

\* ------------------------------------------------------------------ values
\* Python / JSON values are tagged records so that values of different
\* types can be compared.
Val(t, v) == [t |-> t, v |-> v]

None    == Val("none", 0)      \* Python None; also what dict.get gives for a missing key
Raised  == Val("raise", 0)     \* an exception leaving the function
PyTrue  == Val("bool", 1)
PyFalse == Val("bool", 0)
PyStr   == Val("str", 1)       \* a non-empty string

Absent  == Val("absent", 0)    \* key not in the JSON object
JNull   == Val("null", 0)      \* JSON null

Timestamps == {Val("int", 0), Val("int", 1000)}

\* bool(x) in Python
Truthy(x) == x.t \notin {"none", "raise"} /\ x.v # 0

\* data.get(key): a missing key and a JSON null both come out as None
DictGet(field) == IF field.t \in {"absent", "null"} THEN None ELSE field

\* ---------------------------------------------------------------- responses
Body(j, s, l, n) == [json |-> j, success |-> s, lastStartTime |-> l, nodePoints |-> n]

NoBody == Body("invalid", Absent, Absent, Absent)

LastStartTimeFields == {Absent, JNull, PyStr} \cup Timestamps

\* JSON bodies: not JSON, JSON but no object, and objects with the fields
\* missing, false, or present
Bodies ==
    {NoBody, Body("array", Absent, Absent, Absent)}
    \cup {Body("object", s, Val("int", 1000), Absent) : s \in {Absent, PyFalse}}
    \cup {Body("object", PyTrue, l, Absent) : l \in LastStartTimeFields}
    \cup {Body("object", PyTrue, l, Val("int", 5)) : l \in {Absent, Val("int", 1000)}}
    \cup {Body("object", PyStr, Val("int", 1000), Absent)}

Response(k, st, b) == [kind |-> k, status |-> st, body |-> b]

\* what "async with session.post(...)" can end with: an exception (connection
\* error, timeout), a status other than 200, or a 200 with some body
Responses ==
    {Response("exception", 0, NoBody)}
    \cup {Response("http", 201, Body("object", PyTrue, Val("int", 1000), Absent))}
    \cup {Response("http", 500, NoBody)}
    \cup {Response("http", 200, b) : b \in Bodies}

\* ----------------------------------------------------------- proxy file
\* a proxy file: whether open() succeeds, and its lines as sequences of characters
File(readable, lines) == [readable |-> readable, lines |-> lines]

Blank1 == <<" ">>
Blank2 == <<" ", " ">>
LineA  == <<"a">>
LineA2 == <<" ", "a", " ">>
LineB  == <<"b", " ">>

\* the files main may find: none, an empty one, blank lines only, endpoints
\* with and without white space around them, blank lines between endpoints,
\* the same endpoint twice
ProxyFiles ==
    { File(FALSE, <<>>),
      File(TRUE, <<>>),
      File(TRUE, <<Blank1>>),
      File(TRUE, <<<<>>, Blank2>>),
      File(TRUE, <<LineA>>),
      File(TRUE, <<LineA2, <<>>>>),
      File(TRUE, <<LineA, LineB>>),
      File(TRUE, <<LineA, Blank1, LineA2>>) }

IsSpace(c) == c = " "

RECURSIVE lstrip(_)
lstrip(s) == IF s # <<>> /\ IsSpace(Head(s)) THEN lstrip(Tail(s)) ELSE s

RECURSIVE rstrip(_)
rstrip(s) == IF s # <<>> /\ IsSpace(s[Len(s)]) THEN rstrip(SubSeq(s, 1, Len(s) - 1)) ELSE s

\* a strip that leaves the line as it is
strip_None(s) == s

\* str.strip()
strip(s) == rstrip(lstrip(s))

\* ---------------------------------------------------------------- state
VARIABLES
    proxy_file,    \* the file PROXY_FILE names
    mainPc,        \* where main() is: open, reading, check, gather, returned,
                   \* raised, and after Ctrl-C interrupted, shutdown
    linesRead,     \* lines of the proxy file read so far
    proxies,       \* main's list of stripped lines
    tasks,         \* main's list of worker tasks, one record each
    probe          \* what the latest request that ended ended with, where
                   \* responses are recorded

vars == <<proxy_file, mainPc, linesRead, proxies, tasks, probe>>

Workers == DOMAIN tasks

\* a request as do_farm_once / attempt_start_node build it; session is the
\* ClientSession it is posted on (0 until it is posted)
NoRequest ==
    [endpoint |-> "none", proxy |-> <<>>, lastStartTime |-> None, timeout |-> 0,
     session |-> 0]

StartRequest(p) ==
    [endpoint |-> START_ENDPOINT, proxy |-> p, lastStartTime |-> None,
     timeout |-> TIMEOUT_SECS, session |-> 0]

\* a farm request that leaves the handle out
FarmRequest_NoHandle(p, lst) ==
    [endpoint |-> UPDATE_ENDPOINT, proxy |-> p, lastStartTime |-> None,
     timeout |-> TIMEOUT_SECS, session |-> 0]

FarmRequest(p, lst) ==
    [endpoint |-> UPDATE_ENDPOINT, proxy |-> p, lastStartTime |-> lst,
     timeout |-> TIMEOUT_SECS, session |-> 0]

\* session.post(url, json=payload, proxy=proxy_str, timeout=TIMEOUT_SECS)
Post(session, request) == [request EXCEPT !.session = session]

\* a task as asyncio.create_task(worker(p)) leaves it.  The program's own
\* state is pc, proxy_str, last_start_time, inflight, timer and session:
\*   pc   created, start_post (awaiting the start request), start_sleep,
\*        farm_post (awaiting the farm request), farm_sleep, raised (ended
\*        with an exception, KeyboardInterrupt included), cancelled
\*   session  the ClientSession the worker holds open: its first, second, ...
\*            (0 when it holds none)
\* The other fields record what the worker has seen happen:
\*   sessions         ClientSessions the worker has created so far
\*   cancelledAt      where the task was when it was cancelled
\*   lastOutcome      what the latest call returned to the worker: start_ok,
\*                    start_fail, farm_ok, farm_fail (none before the first)
\*   granted          handle returned by the latest successful activation;
\*                    None once a later attempt or a report has failed
\*   lastStartOk      the latest completed activation attempt returned a handle
\*   farmFailedSince  a report has failed since the latest successful activation
\*   everStarted      some activation attempt has returned a handle
\*   signing          what sign_message did in the latest activation attempt:
\*                    ok, raised (none before the first attempt)
\*   sleepsSince      sleeps completed since lastOutcome
\*   run, runSleeps   how many times in a row lastOutcome has come, and the
\*                    sleeps completed since the first of them; for start_ok,
\*                    those of the failed attempts right before it
NewTask(p) ==
    [pc |-> "created", proxy_str |-> p, last_start_time |-> None,
     inflight |-> NoRequest, timer |-> 0, session |-> 0,
     sessions |-> 0, cancelledAt |-> "none",
     lastOutcome |-> "none", granted |-> None, lastStartOk |-> FALSE,
     farmFailedSince |-> FALSE, everStarted |-> FALSE,
     signing |-> "none",
     sleepsSince |-> 0, run |-> 0, runSleeps |-> 0]

\* the probe before any request has ended; with on = FALSE nothing is recorded
NoProbe(on) ==
    [on |-> on, worker |-> 0, endpoint |-> "none",
     resp |-> Response("exception", 0, NoBody)]

\* the request worker i sent to endpoint has ended with resp
Record(pr, i, endpoint, resp) ==
    IF pr.on
    THEN [on |-> TRUE, worker |-> i, endpoint |-> endpoint, resp |-> resp]
    ELSE pr

Init ==
    /\ proxy_file \in ProxyFiles
    /\ mainPc = "open"
    /\ linesRead = 0
    /\ proxies = <<>>
    /\ tasks = <<>>
    /\ probe = NoProbe(FALSE)

\* ------------------------------------------------------- attempt_start_node
\* a try block that takes every 2xx status for success
StartNodeTry_Any2xx(resp) ==
    IF resp.kind = "exception" THEN Raised
    ELSE IF resp.status \div 100 # HTTP_OK \div 100 THEN None
    ELSE IF resp.body.json = "invalid" THEN None
    ELSE IF resp.body.json # "object" THEN Raised
    ELSE IF ~Truthy(DictGet(resp.body.success)) THEN None
    ELSE DictGet(resp.body.lastStartTime)

\* the body of the try block of attempt_start_node, given what the request ended with
StartNodeTry(resp) ==
    IF resp.kind = "exception" THEN Raised
    ELSE IF resp.status # HTTP_OK THEN None
    ELSE IF resp.body.json = "invalid" THEN None
    ELSE IF resp.body.json # "object" THEN Raised       \* data.get on a non-dict
    ELSE IF ~Truthy(DictGet(resp.body.success)) THEN None
    ELSE DictGet(resp.body.lastStartTime)

\* attempt_start_node without its outer except clause
attempt_start_node_NoCatch(resp) == StartNodeTry(resp)

\* "except Exception ... return None" around it
attempt_start_node(resp) ==
    LET r == StartNodeTry(resp) IN IF r = Raised THEN None ELSE r

\* ------------------------------------------------------------- do_farm_once
\* a try block that wants nodePoints in the body
DoFarmTry_NeedsNodePoints(resp) ==
    IF resp.kind = "exception" THEN Raised
    ELSE IF resp.status # HTTP_OK THEN PyFalse
    ELSE IF resp.body.json = "invalid" THEN PyFalse
    ELSE IF resp.body.json # "object" THEN Raised
    ELSE IF ~Truthy(DictGet(resp.body.success)) THEN PyFalse
    ELSE IF DictGet(resp.body.nodePoints) = None THEN PyFalse
    ELSE PyTrue

\* the body of the try block of do_farm_once, given what the request ended with
DoFarmTry(resp) ==
    IF resp.kind = "exception" THEN Raised
    ELSE IF resp.status # HTTP_OK THEN PyFalse
    ELSE IF resp.body.json = "invalid" THEN PyFalse
    ELSE IF resp.body.json # "object" THEN Raised
    ELSE IF ~Truthy(DictGet(resp.body.success)) THEN PyFalse
    ELSE PyTrue

do_farm_once(resp) ==
    LET r == DoFarmTry(resp) IN IF r = Raised THEN PyFalse ELSE r

\* ------------------------------------------------------------------- main
\* with open(PROXY_FILE): the file opens, or open raises and the except
\* clause is taken with proxies still empty
OpenProxyFile ==
    /\ mainPc = "open"
    /\ mainPc' = IF proxy_file.readable THEN "reading" ELSE "check"
    /\ UNCHANGED <<proxy_file, linesRead, proxies, tasks, probe>>

\* what one iteration of "for line in f" leaves in proxies
AppendLine(ps, line) ==
    LET stripped == strip(line) IN
    IF stripped # <<>> THEN Append(ps, stripped) ELSE ps

ReadLine ==
    /\ mainPc = "reading"
    /\ linesRead < Len(proxy_file.lines)
    /\ proxies' = AppendLine(proxies, proxy_file.lines[linesRead + 1])
    /\ linesRead' = linesRead + 1
    /\ UNCHANGED <<proxy_file, mainPc, tasks, probe>>

\* the file ends
EndOfFile ==
    /\ mainPc = "reading"
    /\ linesRead = Len(proxy_file.lines)
    /\ mainPc' = "check"
    /\ UNCHANGED <<proxy_file, linesRead, proxies, tasks, probe>>

\* reading raises part way: the except clause is taken with the lines read so far
ReadError ==
    /\ mainPc = "reading"
    /\ linesRead < Len(proxy_file.lines)
    /\ mainPc' = "check"
    /\ UNCHANGED <<proxy_file, linesRead, proxies, tasks, probe>>

\* "if not proxies"
NoProxies(ps) == Len(ps) = 0

\* "if not proxies: return"
NoProxiesExit ==
    /\ mainPc = "check"
    /\ NoProxies(proxies)
    /\ mainPc' = "returned"
    /\ UNCHANGED <<proxy_file, linesRead, proxies, tasks, probe>>

\* one task per proxy, then await asyncio.gather(*tasks)
SpawnWorkers ==
    /\ mainPc = "check"
    /\ ~NoProxies(proxies)
    /\ mainPc' = "gather"
    /\ tasks' = [i \in DOMAIN proxies |-> NewTask(proxies[i])]
    /\ UNCHANGED <<proxy_file, linesRead, proxies, probe>>

\* ----------------------------------------------------------------- worker
\* the counters of the record count up to MaxRun + 1; from there on they
\* go between MaxRun + 1 and MaxRun + 2, both standing for "more than
\* MaxRun", so that one more sleep or call still shows in the record
Count(n) == IF n > MaxRun + 2 THEN MaxRun + 1 ELSE n

\* the record of what a call returned to the worker
Note(w, outcome, handle) ==
    LET same == w.lastOutcome = outcome
        keep == outcome = "start_ok" /\ w.lastOutcome = "start_fail"
    IN [w EXCEPT
          !.lastOutcome = outcome,
          !.run = IF keep THEN @ ELSE IF same THEN Count(@ + 1)
                  ELSE IF outcome = "start_ok" THEN 0 ELSE 1,
          !.runSleeps = IF keep \/ same THEN @ ELSE 0,
          !.sleepsSince = 0,
          !.granted = IF outcome = "start_ok" THEN handle
                      ELSE IF outcome = "farm_ok" THEN @ ELSE None,
          !.lastStartOk = IF outcome = "start_ok" THEN TRUE
                          ELSE IF outcome = "start_fail" THEN FALSE ELSE @,
          !.farmFailedSince = IF outcome = "start_ok" THEN FALSE
                              ELSE IF outcome = "farm_fail" THEN TRUE ELSE @,
          !.everStarted = @ \/ outcome = "start_ok"]

\* attempt_start_node returned lst
NoteStart(w, lst) == Note(w, IF lst = None THEN "start_fail" ELSE "start_ok", lst)

\* do_farm_once returned success
NoteFarm(w, success) == Note(w, IF success = PyTrue THEN "farm_ok" ELSE "farm_fail", None)

\* a sleep of the worker is over
NoteSleep(w) == [w EXCEPT !.sleepsSince = @ + 1, !.runSleeps = Count(@ + 1)]

\* an outer loop that keeps the old handle
ResetHandle_Keep(lst) == lst

\* "last_start_time = None" at the top of the outer loop
ResetHandle(lst) == None

\* "while not last_start_time"
RetryStart_Falsy(lst) == ~Truthy(lst)

\* "while last_start_time is None" / "if last_start_time is None"
RetryStart(lst) == lst = None

\* a worker that takes every report for accepted
FarmFailed_Never(success) == FALSE

\* "if not success"
FarmFailed(success) == ~Truthy(success)

\* a retry without the sleep
StartFailed_NoSleep(w) ==
    [w EXCEPT !.pc = "start_post", !.inflight = Post(w.session, StartRequest(w.proxy_str))]

\* a worker that gives up after a failed attempt
StartFailed_GiveUp(w) ==
    [w EXCEPT !.pc = "returned", !.timer = 0, !.inflight = NoRequest]

\* "Retrying in POLL_INTERVAL s": await asyncio.sleep(POLL_INTERVAL)
StartFailed(w) ==
    [w EXCEPT !.pc = "start_sleep", !.timer = POLL_INTERVAL, !.inflight = NoRequest]

\* a report that is posted and not awaited: the worker goes on to its sleep
CallDoFarmOnce_NoAwait(w) ==
    [w EXCEPT !.pc = "farm_sleep", !.timer = POLL_INTERVAL,
              !.inflight = Post(w.session, FarmRequest(w.proxy_str, w.last_start_time))]

\* do_farm_once up to its await: post wallet and handle
CallDoFarmOnce(w) ==
    [w EXCEPT !.pc = "farm_post",
              !.inflight = Post(w.session, FarmRequest(w.proxy_str, w.last_start_time))]

\* a worker that throws the handle away and goes round the retry loop again
StartReturned_DropHandle(w, lst) ==
    StartFailed([w EXCEPT !.last_start_time = None, !.inflight = NoRequest])

\* a worker that sleeps between the activation and the first report
StartReturned_SleepFirst(w, lst) ==
    LET w1 == [w EXCEPT !.last_start_time = lst, !.inflight = NoRequest] IN
    IF RetryStart(lst) THEN StartFailed(w1)
    ELSE [w1 EXCEPT !.pc = "farm_sleep", !.timer = POLL_INTERVAL]

\* "last_start_time = await attempt_start_node(...)" has its value: sleep and
\* go round the inner loop, or leave it for the farming loop
StartReturned(w, lst) ==
    LET w1 == [w EXCEPT !.last_start_time = lst, !.inflight = NoRequest] IN
    IF RetryStart(lst) THEN StartFailed(w1) ELSE CallDoFarmOnce(w1)

\* sign_message returned a signature, or raised
NoteSign(w, signed) == [w EXCEPT !.signing = IF signed THEN "ok" ELSE "raised"]

\* an attempt that posts whatever signing did
CallAttemptStartNode_PostUnsigned(w, signed) ==
    [w EXCEPT !.pc = "start_post", !.inflight = Post(w.session, StartRequest(w.proxy_str))]

\* attempt_start_node up to its await: sign the message, then post; a signing
\* error returns None before anything is sent
CallAttemptStartNode(w, signed) ==
    IF signed
    THEN [w EXCEPT !.pc = "start_post", !.inflight = Post(w.session, StartRequest(w.proxy_str))]
    ELSE StartReturned(NoteStart(w, None), None)

\* the head of the inner loop: another attempt while there is no handle
StartLoop(w, signed) ==
    IF RetryStart(w.last_start_time)
    THEN CallAttemptStartNode(NoteSign(w, signed), signed)
    ELSE CallDoFarmOnce(w)

\* "async with aiohttp.ClientSession() as session"
OpenSession(w) == [w EXCEPT !.sessions = @ + 1, !.session = w.sessions + 1]

\* an outer loop that opens a ClientSession for every activation
OuterLoop_NewSession(w, signed) ==
    StartLoop([OpenSession(w) EXCEPT !.last_start_time = ResetHandle(@)], signed)

\* the head of the outer loop
OuterLoop(w, signed) ==
    StartLoop([w EXCEPT !.last_start_time = ResetHandle(@)], signed)

\* a worker that sleeps after every report and only then looks at the result
FarmReturned_SleepFirst(w, success, signed) ==
    [w EXCEPT !.inflight = NoRequest, !.pc = "farm_sleep", !.timer = POLL_INTERVAL]

\* "success = await do_farm_once(...)" has its value: break to the outer loop,
\* or await asyncio.sleep(POLL_INTERVAL)
FarmReturned(w, success, signed) ==
    LET w1 == [w EXCEPT !.inflight = NoRequest] IN
    IF FarmFailed(success)
    THEN OuterLoop(w1, signed)
    ELSE [w1 EXCEPT !.pc = "farm_sleep", !.timer = POLL_INTERVAL]

\* an exception leaves worker(): the async with block closes the session and
\* the task ends with the exception
Raise(w) ==
    [w EXCEPT !.pc = "raised", !.inflight = NoRequest, !.timer = 0, !.session = 0]

\* the same, when one more KeyboardInterrupt is raised inside the exit of the
\* async with block, before the session is closed: the task ends and its
\* session stays open
RaiseInExit(w) == [Raise(w) EXCEPT !.session = w.session]

\* the same as Raise, as a step of task i.  Main and the other tasks are as
\* they were.
WorkerRaises(i) ==
    /\ mainPc' = mainPc
    /\ tasks' = [tasks EXCEPT ![i] = Raise(@)]

\* ------------------------------------------------- part way through a step
\* The record of a worker at the lines its step passes between two awaits.

\* "last_start_time = await attempt_start_node(...)" has its value (l.159):
\* the worker stands at l.160
AfterStart(w, lst) ==
    [NoteStart(w, lst) EXCEPT !.last_start_time = lst, !.inflight = NoRequest]

\* "success = await do_farm_once(...)" has its value (l.168): the worker
\* stands at l.169
AfterFarm(w, success) == [NoteFarm(w, success) EXCEPT !.inflight = NoRequest]

\* l.157 is done
AtOuterLoop(w) == [w EXCEPT !.last_start_time = ResetHandle(@)]

\* the sleep is over (l.162, l.173)
Woken(w) == NoteSleep([w EXCEPT !.timer = 0])

\* the prints the inner loop comes to from its head (l.158, no handle)
\* before its await: l.44 when signing has raised, l.54 when it has not, and
\* l.161 when the attempt has returned None for the signing error
StartLoopPrints(w) ==
    { NoteSign(w, FALSE),
      NoteSign(w, TRUE),
      AfterStart(NoteSign(w, FALSE), None) }

\* the prints outside the try blocks that the next step of w comes to.
\*   created      ClientSession(), then the inner loop
\*   start_sleep  the sleep is over, then the inner loop
\*   start_post   l.86 in the except clause, with nothing returned yet;
\*                l.161 or l.164 with what attempt_start_node returned
\*   farm_post    l.139 in the except clause; l.171 with False returned;
\*                then l.157 and the inner loop
\*   farm_sleep   none: the next report is posted without a print
\* A print inside a try block that raises is caught by "except Exception":
\* the call returns None or False, as it does for a failed request.
PrintsOfStep(w) ==
    CASE w.pc = "created"     -> StartLoopPrints(AtOuterLoop(OpenSession(w)))
      [] w.pc = "start_sleep" -> StartLoopPrints(Woken(w))
      [] w.pc = "start_post"  ->
            {w} \cup {AfterStart(w, attempt_start_node(resp)) : resp \in Responses}
      [] w.pc = "farm_post"   ->
            {w, AfterFarm(w, PyFalse)}
            \cup StartLoopPrints(AtOuterLoop(AfterFarm(w, PyFalse)))
      [] OTHER                -> {}

\* every line the next step of w passes: the prints, and
\*   created      l.154 before and after ClientSession()
\*   start_sleep  l.158 after the sleep
\*   farm_post    l.169 with True returned; l.157 after the break
\*   farm_sleep   l.168 after the sleep
LinesOfStep(w) ==
    PrintsOfStep(w) \cup
    CASE w.pc = "created"     -> {w, OpenSession(w)}
      [] w.pc = "start_sleep" -> {Woken(w)}
      [] w.pc = "farm_post"   -> {AfterFarm(w, PyTrue), AtOuterLoop(AfterFarm(w, PyFalse))}
      [] w.pc = "farm_sleep"  -> {Woken(w)}
      [] OTHER                -> {}

\* asyncio.run has asked task i to cancel on Ctrl-C and the task has not run
\* since: the next thing it is given is the CancelledError, unless the
\* process has exited before, and then the task never runs again
CancelPending(i) ==
    /\ mainPc \in {"interrupted", "shutdown"}
    /\ tasks[i].cancelledAt = "none"


\* the task starts: async with ClientSession, then the loops up to the first await
EnterSession(i) ==
    /\ tasks[i].pc = "created"
    /\ ~CancelPending(i)
    /\ \E signed \in BOOLEAN :
         tasks' = [tasks EXCEPT ![i] = OuterLoop(OpenSession(@), signed)]
    /\ UNCHANGED <<proxy_file, mainPc, linesRead, proxies, probe>>

\* the start request ends; the worker tests what attempt_start_node returns
StartNodeResponse(i) ==
    /\ tasks[i].pc = "start_post"
    /\ ~CancelPending(i)
    /\ \E resp \in Responses :
         LET lst == attempt_start_node(resp) IN
         /\ probe' = Record(probe, i, START_ENDPOINT, resp)
         /\ IF lst = Raised
            THEN WorkerRaises(i)
            ELSE /\ tasks' = [tasks EXCEPT ![i] = StartReturned(NoteStart(@, lst), lst)]
                 /\ UNCHANGED mainPc
    /\ UNCHANGED <<proxy_file, linesRead, proxies>>

\* asyncio.sleep(POLL_INTERVAL) after a failed attempt is over
StartWake(i) ==
    /\ tasks[i].pc = "start_sleep"
    /\ ~CancelPending(i)
    /\ \E signed \in BOOLEAN :
         tasks' = [tasks EXCEPT ![i] = StartLoop(Woken(@), signed)]
    /\ UNCHANGED <<proxy_file, mainPc, linesRead, proxies, probe>>

\* the same, for MaxRun sleeps in a row at most
StartSleepDone(i) ==
    /\ tasks[i].runSleeps < MaxRun
    /\ StartWake(i)

\* the farm request ends; the worker tests what do_farm_once returns
FarmResponse(i) ==
    /\ tasks[i].pc = "farm_post"
    /\ ~CancelPending(i)
    /\ \E resp \in Responses, signed \in BOOLEAN :
         LET success == do_farm_once(resp) IN
         /\ probe' = Record(probe, i, UPDATE_ENDPOINT, resp)
         /\ IF success = Raised
            THEN WorkerRaises(i)
            ELSE /\ tasks' = [tasks EXCEPT ![i] =
                                FarmReturned(NoteFarm(@, success), success, signed)]
                 /\ UNCHANGED mainPc
    /\ UNCHANGED <<proxy_file, linesRead, proxies>>

\* asyncio.sleep(POLL_INTERVAL) after an accepted report is over
FarmWake(i) ==
    /\ tasks[i].pc = "farm_sleep"
    /\ ~CancelPending(i)
    /\ tasks' = [tasks EXCEPT ![i] = CallDoFarmOnce(Woken(@))]
    /\ UNCHANGED <<proxy_file, mainPc, linesRead, proxies, probe>>

\* the same, for MaxRun sleeps in a row at most
FarmSleepDone(i) ==
    /\ tasks[i].runSleeps < MaxRun
    /\ FarmWake(i)

\* main runs up to gather; from then on the event loop runs whichever task
\* has its response or its timer ready
Next ==
    \/ OpenProxyFile
    \/ ReadLine
    \/ EndOfFile
    \/ ReadError
    \/ NoProxiesExit
    \/ SpawnWorkers
    \/ \E i \in Workers : EnterSession(i)
    \/ \E i \in Workers : StartNodeResponse(i)
    \/ \E i \in Workers : StartSleepDone(i)
    \/ \E i \in Workers : FarmResponse(i)
    \/ \E i \in Workers : FarmSleepDone(i)

Spec == Init /\ [][Next]_vars

\* ----------------------------------------------------- recorded responses
\* the files with one line at most: one worker at most
OneLineFiles == {f \in ProxyFiles : Len(f.lines) <= 1}

\* the program on those files, with the response each request ends with recorded
InitApi ==
    /\ proxy_file \in OneLineFiles
    /\ mainPc = "open"
    /\ linesRead = 0
    /\ proxies = <<>>
    /\ tasks = <<>>
    /\ probe = NoProbe(TRUE)

SpecApi == InitApi /\ [][Next]_vars

\* ----------------------------------------------------------------- fairness
\* the indices a worker can have: one per non-blank line of the file
WorkerIds ==
    UNION {1..Len(SelectSeq(f.lines, LAMBDA line : strip(line) # <<>>)) :
             f \in ProxyFiles}

\* the program with its sleeps not counted out
NextLive ==
    \/ OpenProxyFile
    \/ ReadLine
    \/ EndOfFile
    \/ ReadError
    \/ NoProxiesExit
    \/ SpawnWorkers
    \/ \E i \in Workers : EnterSession(i)
    \/ \E i \in Workers : StartNodeResponse(i)
    \/ \E i \in Workers : StartWake(i)
    \/ \E i \in Workers : FarmResponse(i)
    \/ \E i \in Workers : FarmWake(i)

\* the event loop runs every task that is ready: a created task is started,
\* a sleep ends after POLL_INTERVAL, and a request ends with a response, an
\* error or, after TIMEOUT_SECS, a timeout
WorkerFairness(i) ==
    /\ WF_vars(i \in Workers /\ EnterSession(i))
    /\ WF_vars(i \in Workers /\ StartNodeResponse(i))
    /\ WF_vars(i \in Workers /\ StartWake(i))
    /\ WF_vars(i \in Workers /\ FarmResponse(i))
    /\ WF_vars(i \in Workers /\ FarmWake(i))

SpecLive ==
    /\ Init
    /\ [][NextLive]_vars
    /\ \A i \in WorkerIds : WorkerFairness(i)

\* ------------------------------------------------------------- cancellation
\* An exception is named by its class: "Exception" stands for Exception and
\* what derives from it, "CancelledError" for asyncio.CancelledError, which
\* derives from BaseException only (Python 3.8 and later).

\* a bare "except:", which catches whatever is raised
ExceptException_Bare(exc) == TRUE

\* "except Exception" (attempt_start_node, do_farm_once)
ExceptException(exc) == exc = "Exception"

\* CancelledError leaves worker(): the async with block closes the session
\* and the task ends cancelled
Cancelled(w) ==
    [w EXCEPT !.pc = "cancelled", !.inflight = NoRequest, !.timer = 0,
              !.session = 0, !.cancelledAt = w.pc]

\* CancelledError is thrown into the task at the await it is suspended in:
\* session.post inside the try blocks of attempt_start_node and do_farm_once,
\* or asyncio.sleep in worker, outside any try
OnCancel(w, signed) ==
    LET w1 == [w EXCEPT !.cancelledAt = w.pc] IN
    IF w.pc = "start_post" /\ ExceptException("CancelledError")
    THEN StartReturned(NoteStart(w1, None), None)
    ELSE IF w.pc = "farm_post" /\ ExceptException("CancelledError")
    THEN FarmReturned(NoteFarm(w1, PyFalse), PyFalse, signed)
    ELSE Cancelled(w)

\* KeyboardInterrupt is raised between two steps: in main before it creates
\* its tasks, while the event loop waits, after the step that was running
\* when asyncio has kept the Ctrl-C until then, or when main has returned or
\* raised and asyncio.run has not finished yet.  Main is stopped where it is
\* and no task has been touched yet.
InterruptBetweenSteps ==
    /\ mainPc \in {"open", "reading", "check", "gather", "returned", "raised"}
    /\ mainPc' = "interrupted"
    /\ UNCHANGED <<proxy_file, linesRead, proxies, tasks, probe>>

\* KeyboardInterrupt is raised inside "for p in proxies" (l.197-199): main is
\* stopped with a task for the first k proxies only, none of which has run
InterruptSpawn ==
    /\ mainPc = "check"
    /\ ~NoProxies(proxies)
    /\ \E k \in 1..Len(proxies) :
         tasks' = [i \in 1..k |-> NewTask(proxies[i])]
    /\ mainPc' = "interrupted"
    /\ UNCHANGED <<proxy_file, linesRead, proxies, probe>>

\* KeyboardInterrupt is raised inside a step of worker i: "except Exception"
\* does not catch it, it leaves worker() and the task ends with it, with
\* its session closed, or left open when the interrupt comes again in the
\* exit of the async with block.
\*   - while main awaits gather, or has just raised what gather gave it,
\*     the step is an ordinary one, cut at whatever line it has come to;
\*     main and the event loop are stopped;
\*   - while the tasks are being cancelled, after Ctrl-C or after main has
\*     raised, the step is the one that gives the task its CancelledError,
\*     which no line of worker() catches: the record is as the await left
\*     it.  A task that never ran has no line for the interrupt to land in.
InterruptWorker(i) ==
    /\ tasks[i].pc \notin {"raised", "cancelled"}
    /\ \/ /\ mainPc \in {"gather", "raised"}
          /\ \E w \in LinesOfStep(tasks[i]) :
               \E end \in {Raise(w), RaiseInExit(w)} :
                  tasks' = [tasks EXCEPT ![i] = end]
       \/ /\ mainPc \in {"interrupted", "raised"}
          /\ tasks[i].cancelledAt = "none"
          /\ tasks[i].pc # "created"
          /\ \E end \in {Raise(tasks[i]), RaiseInExit(tasks[i])} :
               tasks' = [tasks EXCEPT ![i] = end]
    /\ mainPc' = "interrupted"
    /\ UNCHANGED <<proxy_file, linesRead, proxies, probe>>

\* Ctrl-C while asyncio.run(main()) runs, the first or a later one
KeyboardInterrupt ==
    \/ InterruptBetweenSteps
    \/ InterruptSpawn
    \/ \E i \in Workers : InterruptWorker(i)

\* asyncio.run, on its way out after Ctrl-C or after main has raised, has
\* cancelled task j: the event loop runs the task once more, with the
\* CancelledError.  Each task is cancelled in a step of its own.
CancelTask(j) ==
    /\ mainPc \in {"interrupted", "raised"}
    /\ tasks[j].pc \notin {"raised", "cancelled"}
    /\ tasks[j].cancelledAt = "none"
    /\ \E signed \in BOOLEAN :
         tasks' = [tasks EXCEPT ![j] = OnCancel(@, signed)]
    /\ UNCHANGED <<proxy_file, mainPc, linesRead, proxies, probe>>

\* asyncio.run is left with the KeyboardInterrupt and "except
\* KeyboardInterrupt" prints the shutdown notice: when every task has ended,
\* or before, when one more KeyboardInterrupt stops the event loop while
\* the tasks are being cancelled.  The tasks that have not ended by then
\* are left as they are, request in flight or sleep pending and session
\* open, and are never given another step by the event loop.
ShutDown ==
    /\ mainPc = "interrupted"
    /\ \/ \A j \in Workers : tasks[j].pc \in {"cancelled", "raised"}
       \/ \E j \in Workers : tasks[j].pc \notin {"cancelled", "raised"}
    /\ mainPc' = "shutdown"
    /\ UNCHANGED <<proxy_file, linesRead, proxies, tasks, probe>>

\* The process ends after the notice with task i still pending: the task is
\* discarded and its coroutine closed, GeneratorExit being raised at the
\* await it is suspended in, which no line of the program catches.  The
\* request or the sleep is dropped and the exit of the async with block
\* (l.154) closes the session; when closing has to wait, the exit is
\* abandoned and the session left open.  The task never ends.  A task that
\* never ran has no await and nothing to close.
CoroutineClosed(i) ==
    /\ mainPc = "shutdown"
    /\ tasks[i].pc \notin {"created", "cancelled", "raised"}
    /\ tasks[i].inflight.endpoint # "none" \/ tasks[i].timer # 0
    /\ \E closed \in BOOLEAN :
         tasks' = [tasks EXCEPT ![i] =
                     [@ EXCEPT !.inflight = NoRequest, !.timer = 0,
                               !.session = IF closed THEN 0 ELSE @]]
    /\ UNCHANGED <<proxy_file, mainPc, linesRead, proxies, probe>>

NextCancel ==
    \/ OpenProxyFile
    \/ ReadLine
    \/ EndOfFile
    \/ ReadError
    \/ NoProxiesExit
    \/ SpawnWorkers
    \/ \E i \in Workers : EnterSession(i)
    \/ \E i \in Workers : StartNodeResponse(i)
    \/ \E i \in Workers : StartSleepDone(i)
    \/ \E i \in Workers : FarmResponse(i)
    \/ \E i \in Workers : FarmSleepDone(i)
    \/ KeyboardInterrupt
    \/ \E j \in Workers : CancelTask(j)
    \/ ShutDown
    \/ \E i \in Workers : CoroutineClosed(i)

\* the program with a user who may interrupt it
SpecCancel == Init /\ [][NextCancel]_vars

\* ------------------------------------------------------ an output that fails
\* worker i runs and a print outside the try blocks raises: the exception
\* leaves worker() with what the step had done by then
PrintRaises(i) ==
    /\ \E w \in PrintsOfStep(tasks[i]) :
         tasks' = [tasks EXCEPT ![i] = Raise(w)]
    /\ UNCHANGED <<proxy_file, mainPc, linesRead, proxies, probe>>

\* a print of main raises: l.186 in the except clause, after open or the
\* reading has raised, l.190 or l.193.  The exception leaves main before any
\* task is created.
MainPrintRaises ==
    /\ \/ mainPc = "open" /\ ~proxy_file.readable
       \/ mainPc = "reading" /\ linesRead < Len(proxy_file.lines)
       \/ mainPc = "check"
    /\ mainPc' = "raised"
    /\ UNCHANGED <<proxy_file, linesRead, proxies, tasks, probe>>

\* "await asyncio.gather(*tasks)" re-raises the exception of a task in main,
\* and main ends with it; the other tasks are still as they were
GatherRaises ==
    /\ mainPc = "gather"
    /\ \E i \in Workers : tasks[i].pc = "raised"
    /\ mainPc' = "raised"
    /\ UNCHANGED <<proxy_file, linesRead, proxies, tasks, probe>>

NextFault ==
    \/ OpenProxyFile
    \/ ReadLine
    \/ EndOfFile
    \/ ReadError
    \/ NoProxiesExit
    \/ SpawnWorkers
    \/ \E i \in Workers : EnterSession(i)
    \/ \E i \in Workers : StartNodeResponse(i)
    \/ \E i \in Workers : StartSleepDone(i)
    \/ \E i \in Workers : FarmResponse(i)
    \/ \E i \in Workers : FarmSleepDone(i)
    \/ \E i \in Workers : PrintRaises(i)
    \/ MainPrintRaises
    \/ GatherRaises
    \/ \E j \in Workers : CancelTask(j)

\* the program with an output that may fail
SpecFault == Init /\ [][NextFault]_vars

\* ------------------------------------------------------------- properties
ActivatingPcs == {"start_post", "start_sleep"}
FarmingPcs    == {"farm_post", "farm_sleep"}

T1000 == Val("int", 1000)

\* the request r is a start request of worker w
IsStartOf(r, w) ==
    r.endpoint = START_ENDPOINT /\ r.proxy = w.proxy_str /\ r.lastStartTime = None

\* the request r is a farm request of worker w that carries handle h
IsFarmOf(r, w, h) ==
    r.endpoint = UPDATE_ENDPOINT /\ r.proxy = w.proxy_str /\ r.lastStartTime = h

\* a line that holds something other than white space
NonBlank(line) == \E k \in 1..Len(line) : ~IsSpace(line[k])

\* how many of the first n lines of the file are non-blank
NonBlankAmong(n) == Cardinality({k \in 1..n : NonBlank(proxy_file.lines[k])})

\* C1: a farm request is in flight only after an activation of that worker
\* has succeeded, and the lastStartTime it carries is the handle the latest
\* successful activation returned, not yet discarded by a failed report.
C1_ReportsCarryCurrentHandle ==
    \A i \in Workers :
        LET w == tasks[i] IN
        w.inflight.endpoint = UPDATE_ENDPOINT =>
            /\ w.everStarted
            /\ w.granted # None
            /\ w.inflight.lastStartTime = w.granted

C1_Witness ==
    \E i \in Workers :
        /\ tasks[i].inflight.endpoint = UPDATE_ENDPOINT
        /\ tasks[i].inflight.lastStartTime = T1000
        /\ tasks[i].lastOutcome = "farm_ok"

\* C2: a worker is in Farming exactly when its latest activation attempt
\* succeeded and no report has failed since; otherwise it is in Activating
\* (or has not started running yet).
C2_FarmingIffSessionLive ==
    \A i \in Workers :
        LET w == tasks[i] IN
        /\ w.pc \in FarmingPcs <=> (w.lastStartOk /\ ~w.farmFailedSince)
        /\ w.pc \notin FarmingPcs => w.pc \in ActivatingPcs \cup {"created"}

C2_Witness ==
    \E i \in Workers :
        /\ tasks[i].pc = "start_post"
        /\ tasks[i].lastStartOk
        /\ tasks[i].farmFailedSince

\* C3: a failed report is followed at once by a fresh activation attempt:
\* no sleep, no further farm request, the old handle dropped.  Either the
\* start request is in flight, or signing failed in that first attempt.
C3_AfterFailedReport(w) ==
    w.lastOutcome = "farm_fail" =>
        /\ w.pc = "start_post"
        /\ IsStartOf(w.inflight, w)
        /\ w.last_start_time = None
        /\ w.sleepsSince = 0
        /\ w.timer = 0

C3_FailedReportStep(i) ==
    (/\ tasks[i].pc = "farm_post"
     /\ tasks'[i] # tasks[i]
     /\ tasks'[i].lastOutcome # "farm_ok")
    => /\ tasks'[i].last_start_time = None
       /\ \/ /\ tasks'[i].lastOutcome = "farm_fail"
             /\ tasks'[i].pc = "start_post"
             /\ IsStartOf(tasks'[i].inflight, tasks[i])
             /\ tasks'[i].sleepsSince = 0
          \/ /\ tasks'[i].lastOutcome = "start_fail"
             /\ tasks'[i].pc = "start_sleep"
             /\ tasks'[i].inflight.endpoint = "none"
             /\ tasks'[i].run = 1
             /\ tasks'[i].runSleeps = 0

C3_FailedReportReactivatesAtOnce ==
    /\ [](\A i \in Workers : C3_AfterFailedReport(tasks[i]))
    /\ [][\A i \in Workers : C3_FailedReportStep(i)]_vars

C3_Witness ==
    \E i \in Workers :
        /\ tasks[i].lastOutcome = "farm_fail"
        /\ tasks[i].pc = "start_post"
        /\ tasks[i].everStarted

\* C4 as stated: after every report, whatever its outcome, the worker sleeps
\* before its next action.
C4_SleepsAfterEveryReport ==
    \A i \in Workers :
        LET w == tasks[i] IN
        w.lastOutcome \in {"farm_ok", "farm_fail"} =>
            w.pc = "farm_sleep" \/ w.sleepsSince >= 1

\* C4 amended: after an accepted report the worker sleeps the poll interval
\* once before the next report; after a failed report it does not sleep.
C4_SleepsOnlyAfterAccepted ==
    \A i \in Workers :
        LET w == tasks[i] IN
        /\ w.lastOutcome = "farm_ok" =>
              \/ w.pc = "farm_sleep" /\ w.timer = POLL_INTERVAL /\ w.sleepsSince = 0
              \/ w.pc = "farm_post" /\ w.timer = 0 /\ w.sleepsSince = 1
        /\ w.lastOutcome = "farm_fail" =>
              /\ w.pc \notin {"farm_sleep", "start_sleep"}
              /\ w.timer = 0
              /\ w.sleepsSince = 0

C4_Witness ==
    \E i, j \in Workers :
        /\ tasks[i].lastOutcome = "farm_ok" /\ tasks[i].pc = "farm_post"
        /\ tasks[j].lastOutcome = "farm_fail"

\* C5: while no activation has succeeded the worker stays in Activating and
\* sends no farm request; every failed attempt is followed by one sleep of
\* the poll interval and then the next attempt; the worker never ends.
C5_RetriesWithoutLimit ==
    \A i \in Workers :
        LET w == tasks[i] IN
        /\ w.pc \notin {"raised", "cancelled"}
        /\ (~w.everStarted /\ w.pc # "created") =>
              /\ w.pc \in ActivatingPcs
              /\ w.inflight.endpoint # UPDATE_ENDPOINT
        /\ w.lastOutcome = "start_fail" =>
              \/ /\ w.pc = "start_sleep"
                 /\ w.timer = POLL_INTERVAL
                 /\ w.inflight.endpoint = "none"
                 /\ w.sleepsSince = 0
                 /\ w.runSleeps = w.run - 1
              \/ /\ w.pc = "start_post"
                 /\ w.timer = 0
                 /\ IsStartOf(w.inflight, w)
                 /\ w.sleepsSince = 1
                 /\ w.runSleeps = w.run

C5_Witness ==
    \E i \in Workers :
        /\ ~tasks[i].everStarted
        /\ tasks[i].lastOutcome = "start_fail"
        /\ tasks[i].run = MaxRun + 1
        /\ tasks[i].runSleeps = MaxRun

\* C6: after N accepted reports in a row the worker is still in Farming with
\* the handle of the activation, no start request was sent, every report
\* carried that handle, and one sleep lies between consecutive reports.
C6_AcceptedReportsKeepHandle ==
    \A i \in Workers :
        LET w == tasks[i] IN
        w.lastOutcome = "farm_ok" =>
            /\ w.pc \in FarmingPcs
            /\ w.granted # None
            /\ w.last_start_time = w.granted
            /\ w.inflight.endpoint # START_ENDPOINT
            /\ w.pc = "farm_post" =>
                  /\ IsFarmOf(w.inflight, w, w.granted)
                  /\ w.runSleeps = w.run
            /\ w.pc = "farm_sleep" =>
                  /\ w.inflight.endpoint = "none"
                  /\ w.runSleeps = w.run - 1

C6_Witness ==
    \E i \in Workers :
        /\ tasks[i].lastOutcome = "farm_ok"
        /\ tasks[i].run = 3
        /\ tasks[i].granted = T1000
        /\ tasks[i].pc = "farm_sleep"

\* C7: when an activation succeeds after k failed attempts in a row, k sleeps
\* were taken, the worker holds the returned handle and its first farm
\* request is already in flight with it, no sleep in between.
C7_FirstReportAtOnce ==
    \A i \in Workers :
        LET w == tasks[i] IN
        w.lastOutcome = "start_ok" =>
            /\ w.runSleeps = w.run
            /\ w.pc = "farm_post"
            /\ w.granted # None
            /\ w.last_start_time = w.granted
            /\ IsFarmOf(w.inflight, w, w.granted)
            /\ w.sleepsSince = 0
            /\ w.timer = 0

C7_Witness ==
    \E i \in Workers :
        /\ tasks[i].lastOutcome = "start_ok"
        /\ tasks[i].run = 2
        /\ tasks[i].granted = T1000

\* C8: with no non-blank line read (or no readable file) main spawns no
\* worker and returns; that is the only way it returns.  With n >= 1 proxies
\* it spawns n workers and stays in gather.
C8_MainReturnsIffNoProxies ==
    /\ mainPc # "raised"
    /\ mainPc \notin {"open", "reading"} => Len(proxies) = NonBlankAmong(linesRead)
    /\ mainPc = "returned" => proxies = <<>> /\ tasks = <<>>
    /\ (~proxy_file.readable \/ NonBlankAmong(Len(proxy_file.lines)) = 0) =>
          /\ mainPc \in {"open", "reading", "check", "returned"}
          /\ tasks = <<>>
    /\ (Len(proxies) >= 1 /\ mainPc \notin {"open", "reading", "check"}) =>
          /\ mainPc = "gather"
          /\ Len(tasks) = Len(proxies)

C8_Witness ==
    /\ mainPc = "returned"
    /\ proxy_file.readable
    /\ linesRead = 2

\* C9: a step of one worker leaves every other worker's state and main
\* untouched, and no worker is ever ended by a failure.
C9_WorkerStepIsLocal ==
    \A i \in Workers :
        tasks'[i] # tasks[i] =>
            /\ mainPc' = mainPc
            /\ \A j \in Workers \ {i} : tasks'[j] = tasks[j]

C9_WorkersIsolated ==
    /\ [](\A i \in Workers : tasks[i].pc \notin {"raised", "cancelled"})
    /\ [](mainPc # "raised")
    /\ [][C9_WorkerStepIsLocal]_vars

C9_Witness ==
    \E a, b \in Workers :
        /\ a # b
        /\ tasks[a].lastOutcome = "start_fail" /\ tasks[a].run >= 2
        /\ tasks[b].lastOutcome = "farm_ok" /\ tasks[b].run >= 2

\* C10 as stated: a lastStartTime that is no timestamp never becomes the
\* worker's handle and is never sent in a farm request.
C10_HandleIsATimestamp ==
    \A i \in Workers :
        LET w == tasks[i] IN
        /\ w.pc \in FarmingPcs => w.last_start_time.t = "int"
        /\ w.inflight.endpoint = UPDATE_ENDPOINT => w.inflight.lastStartTime.t = "int"

\* C11: when signing raises, the attempt ends as a failed activation with no
\* request sent and the worker is not ended: it sleeps the poll interval
\* once and then attempts again.  A start request is in flight only after
\* signing succeeded in that attempt.
C11_AfterSigningRaised(w) ==
    /\ w.signing = "raised" =>
          /\ w.lastOutcome = "start_fail"
          /\ w.pc = "start_sleep"
          /\ w.timer = POLL_INTERVAL
          /\ w.inflight.endpoint = "none"
          /\ w.last_start_time = None
          /\ w.sleepsSince = 0
    /\ w.inflight.endpoint = START_ENDPOINT => w.signing = "ok"

C11_RetryStep(i) ==
    (tasks[i].signing = "raised" /\ tasks'[i] # tasks[i]) =>
        /\ tasks'[i].runSleeps = tasks[i].runSleeps + 1
        /\ \/ /\ tasks'[i].signing = "ok"
              /\ tasks'[i].pc = "start_post"
              /\ IsStartOf(tasks'[i].inflight, tasks[i])
           \/ /\ tasks'[i].signing = "raised"
              /\ tasks'[i].run = tasks[i].run + 1

C11_SigningFailureSendsNothing ==
    /\ [](\A i \in Workers : C11_AfterSigningRaised(tasks[i]))
    /\ [](mainPc # "raised")
    /\ [][\A i \in Workers : C11_RetryStep(i)]_vars

C11_Witness ==
    \E i \in Workers :
        /\ tasks[i].signing = "raised"
        /\ tasks[i].everStarted
        /\ tasks[i].run = 2

\* C12 as stated: whatever the proxy file holds, duplicate lines included,
\* no two workers are bound to the same proxy, and of the workers on one
\* proxy at most one holds a handle.
C12_OneWorkerPerPath ==
    \A i, j \in Workers :
        (i # j /\ tasks[i].pc # "created" /\ tasks[j].pc # "created") =>
            /\ tasks[i].proxy_str # tasks[j].proxy_str
            /\ ~(/\ tasks[i].proxy_str = tasks[j].proxy_str
                 /\ tasks[i].last_start_time # None
                 /\ tasks[j].last_start_time # None)

\* a worker that has ended, with nothing in flight and no sleep pending
C13_Stopped(w) ==
    /\ w.pc \in {"cancelled", "raised"}
    /\ w.inflight.endpoint = "none"
    /\ w.timer = 0

C13_AsFound(w) ==
    /\ w.pc \notin {"cancelled", "raised"}
    /\ w.cancelledAt = "none"

C13_InterruptStep ==
    /\ (mainPc # "interrupted" /\ mainPc' = "interrupted") =>
          \A i \in Workers :
              tasks'[i] # tasks[i] =>
                  /\ tasks'[i].pc = "raised"
                  /\ C13_Stopped(tasks'[i])
                  /\ \A j \in Workers \ {i} : tasks'[j] = tasks[j]
    /\ mainPc = "interrupted" =>
          /\ mainPc' \in {"interrupted", "shutdown"}
          /\ mainPc' = "shutdown" => tasks' = tasks
          /\ \A i \in Workers :
                tasks'[i] # tasks[i] =>
                    /\ C13_AsFound(tasks[i])
                    /\ C13_Stopped(tasks'[i])
                    /\ tasks'[i].lastOutcome = tasks[i].lastOutcome
                    /\ tasks'[i].run = tasks[i].run
                    /\ tasks'[i].sleepsSince = tasks[i].sleepsSince
                    /\ \/ /\ tasks'[i].pc = "cancelled"
                          /\ tasks'[i].cancelledAt = tasks[i].pc
                       \/ /\ tasks'[i].pc = "raised"
                          /\ tasks'[i].cancelledAt = "none"
                    /\ \A j \in Workers \ {i} : tasks'[j] = tasks[j]
    /\ mainPc = "shutdown" =>
          /\ mainPc' = "shutdown"
          /\ \A i \in Workers :
                tasks'[i] # tasks[i] =>
                    /\ C13_AsFound(tasks[i])
                    /\ \E s \in {0, tasks[i].session} :
                          tasks'[i] = [tasks[i] EXCEPT !.inflight = NoRequest,
                                                       !.timer = 0,
                                                       !.session = s]
                    /\ \A j \in Workers \ {i} : tasks'[j] = tasks[j]

ProbeIs(i, endpoint) ==
    probe.on /\ probe.worker = i /\ probe.endpoint = endpoint

\* a response with a 2xx status whose body is a JSON object with a truthy success
Is2xxSuccess(r) ==
    /\ r.kind = "http"
    /\ r.status \in 200..299
    /\ r.body.json = "object"
    /\ r.body.success.t \notin {"absent", "null"}
    /\ r.body.success.v # 0

\* a response with status 200 whose body is a JSON object with a truthy success
Is200Success(r) ==
    /\ r.kind = "http"
    /\ r.status = 200
    /\ r.body.json = "object"
    /\ r.body.success.t \notin {"absent", "null"}
    /\ r.body.success.v # 0

\* C14 as stated: the activation yields a handle exactly when the response
\* has a 2xx status, a parseable body, success = true and a lastStartTime
\* field; the handle is that field.
C14_HandleIffAny2xxSuccess ==
    \A i \in Workers :
        ProbeIs(i, START_ENDPOINT) =>
            LET r  == probe.resp
                ok == /\ Is2xxSuccess(r)
                      /\ r.body.lastStartTime.t \notin {"absent", "null"}
            IN /\ ok <=> tasks[i].lastOutcome = "start_ok"
               /\ ok => tasks[i].granted = r.body.lastStartTime

\* C14 amended: the activation yields a handle exactly when the response has
\* status 200, its body is a JSON object with a truthy success, and
\* lastStartTime is in it and not null; the handle is that field's value.
\* In every other case the attempt has failed and the worker stays in
\* Activating without a handle.
C14_HandleIff200Success ==
    \A i \in Workers :
        ProbeIs(i, START_ENDPOINT) =>
            LET r  == probe.resp
                w  == tasks[i]
                ok == /\ Is200Success(r)
                      /\ r.body.lastStartTime.t \notin {"absent", "null"}
            IN /\ ok <=> w.lastOutcome = "start_ok"
               /\ ok => /\ w.granted = r.body.lastStartTime
                         /\ w.last_start_time = r.body.lastStartTime
               /\ ~ok => /\ w.lastOutcome = "start_fail"
                          /\ w.pc \in ActivatingPcs
                          /\ w.last_start_time = None

C14_Witness ==
    \E i \in Workers :
        /\ ProbeIs(i, START_ENDPOINT)
        /\ probe.resp.status = 201
        /\ probe.resp.body.success = PyTrue
        /\ tasks[i].lastOutcome = "start_fail"
        /\ tasks[i].pc = "start_sleep"

\* C15 as stated: a report is Accepted exactly when the response has a 2xx
\* status, a parseable body and success = true, with or without nodePoints.
C15_AcceptedIffAny2xxSuccess ==
    \A i \in Workers :
        ProbeIs(i, UPDATE_ENDPOINT) =>
            (Is2xxSuccess(probe.resp) <=> tasks[i].lastOutcome = "farm_ok")

\* C15 amended: a report is Accepted exactly when the response has status
\* 200 and its body is a JSON object with a truthy success, with or without
\* nodePoints; then the worker stays in Farming with its handle.  After
\* every other result the worker is in Activating with the handle dropped,
\* whatever kind of failure it was.
C15_AcceptedIff200Success ==
    \A i \in Workers :
        ProbeIs(i, UPDATE_ENDPOINT) =>
            LET w  == tasks[i]
                ok == Is200Success(probe.resp)
            IN /\ ok <=> w.lastOutcome = "farm_ok"
               /\ ok => /\ w.pc \in FarmingPcs
                         /\ w.last_start_time # None
                         /\ w.last_start_time = w.granted
               /\ ~ok => /\ w.lastOutcome \in {"farm_fail", "start_fail"}
                          /\ w.pc \in ActivatingPcs
                          /\ w.last_start_time = None
                          /\ w.granted = None

C15_Witness ==
    \E i \in Workers :
        /\ ProbeIs(i, UPDATE_ENDPOINT)
        /\ Is200Success(probe.resp)
        /\ probe.resp.body.nodePoints = Absent
        /\ tasks[i].lastOutcome = "farm_ok"
        /\ tasks[i].pc = "farm_post"

\* C16: a worker awaiting a response has that one request in flight and no
\* sleep pending; a sleeping worker has no request in flight; and a request
\* replaces another only in the step in which the call that sent the earlier
\* one returns to the worker.
C16_OneAtATime(w) ==
    /\ w.pc = "created" => w.inflight.endpoint = "none" /\ w.timer = 0
    /\ w.pc = "start_post" => w.inflight.endpoint = START_ENDPOINT /\ w.timer = 0
    /\ w.pc = "farm_post" => w.inflight.endpoint = UPDATE_ENDPOINT /\ w.timer = 0
    /\ w.pc \in {"start_sleep", "farm_sleep"} =>
          w.inflight.endpoint = "none" /\ w.timer = POLL_INTERVAL
    /\ w.inflight.endpoint # "none" => w.pc \in {"start_post", "farm_post"}

C16_NextRequestStep(i) ==
    (/\ tasks'[i].inflight.endpoint # "none"
     /\ tasks[i].inflight.endpoint # "none"
     /\ tasks'[i] # tasks[i])
    => /\ <<tasks'[i].lastOutcome, tasks'[i].run>> # <<tasks[i].lastOutcome, tasks[i].run>>
       /\ tasks'[i].sleepsSince = 0
       /\ tasks'[i].inflight.endpoint # tasks[i].inflight.endpoint

C16_StrictlySequential ==
    /\ [](\A i \in Workers : C16_OneAtATime(tasks[i]))
    /\ [][\A i \in Workers : C16_NextRequestStep(i)]_vars

C16_Witness ==
    \E i, j \in Workers :
        /\ tasks[i].pc = "start_post" /\ tasks[i].lastOutcome = "farm_fail"
        /\ tasks[j].pc = "farm_sleep" /\ tasks[j].run = 2

\* worker i puts a request in flight in this step
RequestIssued(i) ==
    /\ i \in Workers
    /\ tasks'[i] # tasks[i]
    /\ tasks'[i].inflight.endpoint # "none"

\* worker i makes a call in this step: it puts a request in flight, or it
\* starts an activation attempt whose signing raises
CallMade(i) ==
    /\ i \in Workers
    /\ tasks'[i] # tasks[i]
    /\ \/ tasks'[i].inflight.endpoint # "none"
       \/ tasks'[i].signing = "raised"

\* C17 as stated: a worker, once spawned, issues another request again and
\* again, whatever the responses are.
C17_AlwaysAnotherRequest ==
    \A i \in WorkerIds :
        \/ [](i \notin Workers)
        \/ []<><<RequestIssued(i)>>_vars

\* C17 amended: a worker, once spawned, makes another call again and again
\* (an activation attempt, which sends a request unless its signing raises,
\* or a report), it never ends, and main, once in gather, stays there.
C17_AlwaysAnotherCall ==
    /\ \A i \in WorkerIds :
          \/ [](i \notin Workers)
          \/ []<><<CallMade(i)>>_vars
    /\ [](\A i \in Workers :
            tasks[i].pc \in {"created"} \cup ActivatingPcs \cup FarmingPcs)
    /\ [][mainPc = "gather" => mainPc' = "gather"]_vars

C17_Witness ==
    \E i \in Workers :
        /\ tasks[i].everStarted
        /\ tasks[i].signing = "raised"
        /\ tasks[i].lastOutcome = "start_fail"
        /\ tasks[i].run = MaxRun + 2

\* C18: a worker creates one ClientSession, when it starts and before its
\* first request; every request of the worker, start or farm, is posted on
\* that session; the session stays open while the worker runs and is closed
\* only when the worker ends: cancelled, with an interrupt raised in it, or
\* with its coroutine closed when the process ends before it was cancelled.
C18_Awaiting(w) ==
    w.inflight.endpoint # "none" \/ w.timer # 0

C18_OwnsOneSession(w) ==
    /\ w.pc = "created" => w.sessions = 0 /\ w.session = 0
    /\ w.pc \in ActivatingPcs \cup FarmingPcs =>
          /\ w.sessions = 1
          /\ w.session \in {0, 1}
          /\ C18_Awaiting(w) => w.session = 1
          /\ ~C18_Awaiting(w) => mainPc = "shutdown"
    /\ w.inflight.endpoint # "none" => w.inflight.session = 1
    /\ w.pc = "cancelled" =>
          /\ w.session = 0
          /\ w.sessions = IF w.cancelledAt = "created" THEN 0 ELSE 1
    /\ w.pc = "raised" => w.session \in {0, w.sessions} /\ w.sessions <= 1

C18_SessionStep(i) ==
    /\ tasks'[i].session # tasks[i].session =>
          \/ tasks[i].pc = "created" /\ tasks'[i].pc \in ActivatingPcs \cup {"raised"}
          \/ tasks[i].pc # "created" /\ tasks'[i].pc \in {"cancelled", "raised"}
          \/ /\ mainPc = "shutdown"
             /\ C18_Awaiting(tasks[i])
             /\ ~C18_Awaiting(tasks'[i])
    /\ tasks'[i].sessions # tasks[i].sessions => tasks[i].pc = "created"

C19_Reporting(i) ==
    /\ i \in Workers
    /\ tasks[i].pc = "farm_post"
    /\ tasks[i].granted # None
    /\ IsFarmOf(tasks[i].inflight, tasks[i], tasks[i].granted)

\* no activation attempt of worker i has failed since its last success
C19_NoFailedAttempt(i) ==
    i \in Workers /\ tasks[i].lastOutcome # "start_fail"

\* C19: if from some point on no activation attempt of a scheduled worker
\* fails, the worker comes to report with the handle it obtained, whatever
\* failed before, and keeps coming back to reporting.
C19_SuccessLeadsToFarming ==
    \A i \in WorkerIds :
        <>[]C19_NoFailedAttempt(i) => []<>C19_Reporting(i)

C19_Witness ==
    \E i \in Workers :
        /\ C19_Reporting(i)
        /\ tasks[i].lastOutcome = "start_ok"
        /\ tasks[i].run = MaxRun + 2
        /\ tasks[i].farmFailedSince = FALSE

Zero == Val("int", 0)

\* C20: a successful start response whose lastStartTime is 0 gives the
\* worker the handle 0: the retry loop ends without a sleep, the first
\* report is in flight with 0, and the reports after it carry 0 too.  A
\* worker sleeps in the retry loop only with no handle at all.
C20_ZeroIsAHandle ==
    \A i \in Workers :
        LET w == tasks[i] IN
        /\ (/\ ProbeIs(i, START_ENDPOINT)
            /\ Is200Success(probe.resp)
            /\ probe.resp.body.lastStartTime = Zero) =>
                /\ w.lastOutcome = "start_ok"
                /\ w.pc = "farm_post"
                /\ w.last_start_time = Zero
                /\ IsFarmOf(w.inflight, w, Zero)
                /\ w.sleepsSince = 0
                /\ w.timer = 0
        /\ (w.lastOutcome = "farm_ok" /\ w.granted = Zero) =>
                /\ w.pc \in FarmingPcs
                /\ w.last_start_time = Zero
                /\ w.pc = "farm_post" => IsFarmOf(w.inflight, w, Zero)
        /\ w.pc = "start_sleep" =>
                /\ w.last_start_time = None
                /\ w.lastOutcome = "start_fail"

C20_Witness ==
    \E i \in Workers :
        /\ ProbeIs(i, UPDATE_ENDPOINT)
        /\ tasks[i].lastOutcome = "farm_ok"
        /\ tasks[i].granted = Zero
        /\ tasks[i].pc = "farm_post"
        /\ tasks[i].inflight.lastStartTime = Zero

====
